---- MODULE Spec2Model ----
(***************************************************************************)
(* rust_cp: a `cp` look-alike (src/src/main.rs).  The state is the file     *)
(* system the process works on, the parsed command line, the call stack of  *)
(* copy_directory / copy_file activations, and what the process has         *)
(* printed.  Every step is one stretch of main.rs between two system calls. *)
(* fs0 remembers the file system at invocation; failed and declined remember *)
(* that an Err was raised and that an overwrite prompt was declined.         *)
(***************************************************************************)
EXTENDS Integers, Sequences, FiniteSets, TLC

VARIABLES fs, args, pc, stack, status, msg, log, fs0, failed, declined

vars == <<fs, args, pc, stack, status, msg, log, fs0, failed, declined>>

-----------------------------------------------------------------------------
(* Bounds *)

\* longest path (in components) the file system accepts; longer: ENAMETOOLONG
PathMax == 3
\* number of entries (files and directories) on the disk at invocation
MaxNodes == 4

-----------------------------------------------------------------------------
(* Paths and the file system *)

Names == {"a", "b"}

\* paths are sequences of names, relative to the working directory `.`
Root == << >>

Paths == UNION {[1..n -> Names] : n \in 0..PathMax}

Prefix(p, k) == SubSeq(p, 1, k)

Parent(p) == Prefix(p, Len(p) - 1)

IsPrefix(p, q) == Len(p) <= Len(q) /\ Prefix(q, Len(p)) = p

\* Path::join with a single component (main.rs:91)
Join(dir, name) == Append(dir, name)

None == [t |-> "none", c |-> << >>]
Dir == [t |-> "dir", c |-> << >>]
\* a directory with mode 000: it can be stat'ed, but neither listed nor searched
Locked == [t |-> "locked", c |-> << >>]
File(c) == [t |-> "file", c |-> c]

DirTypes == {"dir", "locked"}

\* contents of the files on the disk at invocation
InitContents == {<<2>>, <<1, 2>>}

Min(S) == CHOOSE x \in S : \A y \in S : x <= y
Max(S) == CHOOSE x \in S : \A y \in S : x >= y

\* stat(2) of p on file system f: "OK" or the errno
Stat(f, p) ==
  IF Len(p) > PathMax THEN "ENAMETOOLONG"
  ELSE LET bad == {k \in 0..(Len(p) - 1) : f[Prefix(p, k)].t # "dir"}
       IN IF bad # {}
          THEN LET n == f[Prefix(p, Min(bad))]
               IN CASE n.t = "none" -> "ENOENT"
                    [] n.t = "file" -> "ENOTDIR"
                    [] OTHER -> "EACCES"
          ELSE IF f[p].t = "none" THEN "ENOENT" ELSE "OK"

\* Path::exists: false on every stat error, not only on ENOENT
Exists(f, p) == Stat(f, p) = "OK"

\* Path::is_dir: false on every stat error
IsDir(f, p) == Stat(f, p) = "OK" /\ f[p].t \in DirTypes

\* the names a listing of directory p can yield
Children(f, p) ==
  IF Len(p) >= PathMax THEN {}
  ELSE {n \in Names : f[Join(p, n)].t # "none"}

-----------------------------------------------------------------------------
(* Initial file systems: every tree of at most MaxNodes entries *)

RECURSIVE Shapes(_)
Shapes(k) ==
  IF k = 0 THEN {{}}
  ELSE LET prev == Shapes(k - 1)
       IN prev \cup UNION {
            {S \cup {p} : p \in {q \in Paths \ (S \cup {Root}) :
                                   Parent(q) \in (S \cup {Root})}} : S \in prev}

InitShapes == Shapes(MaxNodes)

InitNodes == {Dir, Locked} \cup {File(c) : c \in InitContents}

WellFormed(S, typ) ==
  /\ \A p \in S : (\E q \in S : Parent(q) = p) => typ[p].t \in DirTypes
  /\ \A p \in S : typ[p].t = "locked" => p = <<"a">>

MkFs(S, typ) == [p \in Paths |-> IF p = Root THEN Dir
                                 ELSE IF p \in S THEN typ[p] ELSE None]

SrcArgs == {Root, <<"a">>, <<"a", "a">>}
DstArgs == {<<"a">>, <<"b">>, <<"a", "b">>}

Init ==
  /\ \E S \in InitShapes : \E typ \in [S -> InitNodes] :
        /\ WellFormed(S, typ)
        /\ fs = MkFs(S, typ)
  /\ args \in [source : SrcArgs, destination : DstArgs,
               recursive : BOOLEAN, verbose : BOOLEAN, interactive : BOOLEAN]
  /\ pc = "main"
  /\ stack = << >>
  /\ status = 0
  /\ msg = "none"
  /\ log = << >>
  /\ fs0 = fs
  /\ failed = FALSE
  /\ declined = FALSE

-----------------------------------------------------------------------------
(* The standard library calls main.rs makes, with every outcome they have *)

\* f with the prefixes of p of length k..m created as directories
WithDirs(f, p, k, m) ==
  [q \in Paths |-> IF \E j \in k..m : q = Prefix(p, j) THEN Dir ELSE f[q]]

\* fs::create_dir_all(p), called when p does not exist (main.rs:84): the
\* missing ancestors are made top-down; an error may strike at any of them
CreateDirAll(f, p) ==
  IF Stat(f, p) = "ENOENT"
  THEN LET first == Min({k \in 1..Len(p) : f[Prefix(p, k)].t = "none"})
       IN {[fs |-> WithDirs(f, p, first, Len(p)), ok |-> TRUE]}
          \cup {[fs |-> WithDirs(f, p, first, m), ok |-> FALSE] :
                  m \in (first - 1)..(Len(p) - 1)}
  ELSE {[fs |-> f, ok |-> FALSE]}

\* fs::read_dir(p) (main.rs:87) succeeds on a searchable, readable directory
ReadDirOk(f, p) == Stat(f, p) = "OK" /\ f[p].t = "dir"

\* the proper prefixes of a byte string
ProperPrefixes(c) == {SubSeq(c, 1, k) : k \in 0..(Len(c) - 1)}

\* open(to, O_WRONLY|O_CREAT|O_TRUNC) can succeed
CanOpenTo(f, to) ==
  /\ to # Root
  /\ Stat(f, Parent(to)) = "OK"
  /\ f[Parent(to)].t = "dir"
  /\ Len(to) <= PathMax
  /\ f[to].t \in {"none", "file"}

\* fs::copy(from, to) (main.rs:71): open `from`, open `to` truncating it, then
\* stream the bytes of `from`; an error may strike before the open or while
\* streaming, and then `to` holds what was written so far
FsCopy(f, from, to) ==
  IF Stat(f, from) = "OK" /\ f[from].t = "file" /\ CanOpenTo(f, to)
  THEN LET opened == [f EXCEPT ![to] = File(<< >>)]
           bytes == opened[from].c
       IN {[fs |-> [opened EXCEPT ![to] = File(bytes)], ok |-> TRUE],
           [fs |-> f, ok |-> FALSE]}
          \cup {[fs |-> [opened EXCEPT ![to] = File(w)], ok |-> FALSE] :
                  w \in ProperPrefixes(bytes)}
  ELSE {[fs |-> f, ok |-> FALSE]}

-----------------------------------------------------------------------------
(* The answer to the overwrite prompt *)

Answers == { <<"y", "\n">>, <<"Y", "\n">>, <<" ", "y", " ", "\n">>,
             <<"n", "\n">>, <<"\n">>, << >>, <<"y", "e", "s", "\n">> }

IsWhitespace(ch) == ch \in {" ", "\n", "\t", "\r"}

\* str::trim
RECURSIVE Trim(_)
Trim(s) ==
  IF s = << >> THEN s
  ELSE IF IsWhitespace(Head(s)) THEN Trim(Tail(s))
  ELSE IF IsWhitespace(s[Len(s)]) THEN Trim(SubSeq(s, 1, Len(s) - 1))
  ELSE s

ToAsciiLowercase(ch) ==
  CASE ch = "Y" -> "y"
    [] ch = "N" -> "n"
    [] ch = "E" -> "e"
    [] ch = "S" -> "s"
    [] OTHER -> ch

\* str::eq_ignore_ascii_case
EqIgnoreAsciiCase(s, t) ==
  /\ Len(s) = Len(t)
  /\ \A i \in 1..Len(s) : ToAsciiLowercase(s[i]) = ToAsciiLowercase(t[i])

\* the prompt's default taken for yes: an empty answer confirms
ConfirmsByDefault(answer) ==
  \/ Trim(answer) = << >>
  \/ EqIgnoreAsciiCase(Trim(answer), <<"y">>)

\* main.rs:64, the answer confirms the overwrite
Confirms(answer) == EqIgnoreAsciiCase(Trim(answer), <<"y">>)

-----------------------------------------------------------------------------
(* The call stack *)

Frame(kind, src, dst) ==
  [kind |-> kind, src |-> src, dst |-> dst, st |-> "enter",
   seen |-> {}, snap |-> {}, answer |-> << >>]

Top == stack[Len(stack)]

Pop == SubSeq(stack, 1, Len(stack) - 1)

SetTop(fr) == [stack EXCEPT ![Len(stack)] = fr]

Running(kind, st) ==
  /\ pc = "call"
  /\ stack # << >>
  /\ Top.kind = kind
  /\ Top.st = st

\* the exit status of a process that main leaves with Err, or by exit(1)
ExitFailure == 1
ExitSuccess == 0

Notice(kind, src, dst) == [k |-> kind, src |-> src, dst |-> dst]

\* an Err value starts its way up through the `?` operators
Raise == pc' = "unwind" /\ failed' = TRUE

-----------------------------------------------------------------------------
(* main, main.rs:29-54 *)

\* main with the destination directory made before the -r flag is looked at
MainCreatingFirst ==
  /\ pc = "main"
  /\ IF ~Exists(fs, args.source)
     THEN /\ msg' = "Source path does not exist"
          /\ status' = ExitFailure
          /\ pc' = "exit"
          /\ UNCHANGED <<stack, fs>>
     ELSE IF IsDir(fs, args.source)
     THEN /\ fs' = IF Stat(fs, args.destination) = "ENOENT"
                   THEN WithDirs(fs, args.destination, 1, Len(args.destination))
                   ELSE fs
          /\ IF ~args.recursive
             THEN /\ msg' = "Source is a directory"
                  /\ status' = ExitFailure
                  /\ pc' = "exit"
                  /\ stack' = stack
             ELSE /\ stack' = <<Frame("dir", args.source, args.destination)>>
                  /\ pc' = "call"
                  /\ UNCHANGED <<msg, status>>
     ELSE /\ stack' = <<Frame("file", args.source, args.destination)>>
          /\ pc' = "call"
          /\ UNCHANGED <<msg, status, fs>>
  /\ UNCHANGED <<args, log, fs0, failed, declined>>

Main ==
  /\ pc = "main"
  /\ IF ~Exists(fs, args.source)
     THEN /\ msg' = "Source path does not exist"
          /\ status' = ExitFailure
          /\ pc' = "exit"
          /\ stack' = stack
     ELSE IF IsDir(fs, args.source)
     THEN IF ~args.recursive
          THEN /\ msg' = "Source is a directory"
               /\ status' = ExitFailure
               /\ pc' = "exit"
               /\ stack' = stack
          ELSE /\ stack' = <<Frame("dir", args.source, args.destination)>>
               /\ pc' = "call"
               /\ UNCHANGED <<msg, status>>
     ELSE /\ stack' = <<Frame("file", args.source, args.destination)>>
          /\ pc' = "call"
          /\ UNCHANGED <<msg, status>>
  /\ UNCHANGED <<fs, args, log, fs0, failed, declined>>

\* main.rs:47, 50, 53: the outermost call has returned
MainReturn ==
  /\ pc \in {"call", "unwind"}
  /\ stack = << >>
  /\ status' = IF pc = "unwind" THEN ExitFailure ELSE ExitSuccess
  /\ pc' = "exit"
  /\ UNCHANGED <<fs, args, stack, msg, log, fs0, failed, declined>>

-----------------------------------------------------------------------------
(* copy_file, main.rs:57-78 *)

\* main.rs:59-63: prompt and read the answer when the destination exists
CfPrompt ==
  /\ Running("file", "enter")
  /\ IF args.interactive /\ Exists(fs, Top.dst)
     THEN \/ \E ans \in Answers :
               /\ stack' = SetTop([Top EXCEPT !.st = "decide", !.answer = ans])
               /\ UNCHANGED <<pc, failed>>
          \/ /\ Raise
             /\ stack' = stack
     ELSE /\ stack' = SetTop([Top EXCEPT !.st = "copy"])
          /\ UNCHANGED <<pc, failed>>
  /\ UNCHANGED <<fs, args, status, msg, log, fs0, declined>>

\* main.rs:64-67
CfDecide ==
  /\ Running("file", "decide")
  /\ IF ~Confirms(Top.answer)
     THEN /\ stack' = Pop
          /\ declined' = TRUE
     ELSE /\ stack' = SetTop([Top EXCEPT !.st = "copy"])
          /\ declined' = declined
  /\ UNCHANGED <<fs, args, pc, status, msg, log, fs0, failed>>

\* main.rs:70-77
CfCopy ==
  /\ Running("file", "copy")
  /\ \E o \in FsCopy(fs, Top.src, Top.dst) :
       /\ fs' = o.fs
       /\ IF o.ok
          THEN /\ log' = IF args.verbose
                         THEN Append(log, Notice("Copied", Top.src, Top.dst))
                         ELSE log
               /\ stack' = Pop
               /\ UNCHANGED <<pc, failed>>
          ELSE /\ Raise
               /\ UNCHANGED <<stack, log>>
  /\ UNCHANGED <<args, status, msg, fs0, declined>>

-----------------------------------------------------------------------------
(* copy_directory, main.rs:81-107 *)

\* main.rs:83-85
CdCreate ==
  /\ Running("dir", "enter")
  /\ IF ~Exists(fs, Top.dst)
     THEN \E o \in CreateDirAll(fs, Top.dst) :
            /\ fs' = o.fs
            /\ IF o.ok
               THEN /\ stack' = SetTop([Top EXCEPT !.st = "list"])
                    /\ UNCHANGED <<pc, failed>>
               ELSE /\ Raise
                    /\ stack' = stack
     ELSE /\ stack' = SetTop([Top EXCEPT !.st = "list"])
          /\ UNCHANGED <<fs, pc, failed>>
  /\ UNCHANGED <<args, status, msg, log, fs0, declined>>

\* main.rs:87, fs::read_dir(source)?
CdReadDir ==
  /\ Running("dir", "list")
  /\ \/ /\ ReadDirOk(fs, Top.src)
        /\ stack' = SetTop([Top EXCEPT !.st = "iter",
                                        !.snap = Children(fs, Top.src)])
        /\ UNCHANGED <<pc, failed>>
     \/ /\ Raise
        /\ stack' = stack
  /\ UNCHANGED <<fs, args, status, msg, log, fs0, declined>>

\* main.rs:88-99: the listing yields one more entry, in any order (an entry
\* made while the listing is open may or may not be yielded), and the entry is
\* handed to copy_directory or copy_file; or reading the entry fails
CdNext ==
  /\ Running("dir", "iter")
  /\ \/ \E n \in Children(fs, Top.src) \ Top.seen :
          LET entry_path == Join(Top.src, n)
              dest_entry_path == Join(Top.dst, n)
              kind == IF IsDir(fs, entry_path) THEN "dir" ELSE "file"
          IN /\ stack' = Append(SetTop([Top EXCEPT !.seen = @ \cup {n}]),
                                Frame(kind, entry_path, dest_entry_path))
             /\ UNCHANGED <<pc, failed>>
     \/ /\ Raise
        /\ stack' = stack
  /\ UNCHANGED <<fs, args, status, msg, log, fs0, declined>>

\* copy_directory announcing the outermost directory only
CdFinishRootOnly ==
  /\ Running("dir", "iter")
  /\ (Top.snap \cap Children(fs, Top.src)) \subseteq Top.seen
  /\ log' = IF args.verbose /\ Len(stack) = 1
            THEN Append(log, Notice("Recursively copied directory",
                                    Top.src, Top.dst))
            ELSE log
  /\ stack' = Pop
  /\ UNCHANGED <<fs, args, pc, status, msg, fs0, failed, declined>>

\* main.rs:100-106: the listing is exhausted once every entry that was there
\* when it was opened has been yielded
CdFinish ==
  /\ Running("dir", "iter")
  /\ (Top.snap \cap Children(fs, Top.src)) \subseteq Top.seen
  /\ log' = IF args.verbose
            THEN Append(log, Notice("Recursively copied directory",
                                    Top.src, Top.dst))
            ELSE log
  /\ stack' = Pop
  /\ UNCHANGED <<fs, args, pc, status, msg, fs0, failed, declined>>

\* an Err of a child logged and dropped: the loop of the caller goes on
UnwindSwallowing ==
  /\ pc = "unwind"
  /\ stack # << >>
  /\ stack' = Pop
  /\ pc' = IF Len(stack) > 1 THEN "call" ELSE "unwind"
  /\ UNCHANGED <<fs, args, status, msg, log, fs0, failed, declined>>

\* the `?` of main.rs:95 and 98: an Err leaves the enclosing copy_directory
Unwind ==
  /\ pc = "unwind"
  /\ stack # << >>
  /\ stack' = Pop
  /\ UNCHANGED <<fs, args, pc, status, msg, log, fs0, failed, declined>>

-----------------------------------------------------------------------------

Next ==
  \/ Main
  \/ MainReturn
  \/ CfPrompt
  \/ CfDecide
  \/ CfCopy
  \/ CdCreate
  \/ CdReadDir
  \/ CdNext
  \/ CdFinish
  \/ Unwind

Spec == Init /\ [][Next]_vars

-----------------------------------------------------------------------------
(* Properties *)

\* main called copy_directory
DirCopy == args.recursive /\ IsDir(fs0, args.source)

Succeeded == pc = "exit" /\ status = 0

\* q relative to its ancestor p
Rel(p, q) == SubSeq(q, Len(p) + 1, Len(q))

\* the entries of the source tree at invocation
SrcTree0 ==
  {p \in Paths : /\ IsPrefix(args.source, p)
                 /\ p # args.source
                 /\ fs0[p].t # "none"}

SrcDirs0 ==
  {p \in Paths : IsPrefix(args.source, p) /\ fs0[p].t \in DirTypes}

\* the number of nested copy_directory calls the source tree at invocation needs
SrcDepth0 == Max({Len(p) - Len(args.source) + 1 : p \in SrcDirs0})

DirFrames == {i \in 1..Len(stack) : stack[i].kind = "dir"}

\* C1 (mirroring): after a recursive copy that succeeded with no prompt
\* declined, every entry of the source tree is under the destination at the
\* same relative path, a directory as a directory, a file as a file with the
\* bytes the source file has.
C1_Mirroring ==
  (Succeeded /\ DirCopy /\ ~declined) =>
    \A p \in SrcTree0 :
      LET d == args.destination \o Rel(args.source, p)
      IN /\ Len(d) <= PathMax
         /\ fs[d].t # "none"
         /\ (fs0[p].t = "file" => fs[d].t = "file" /\ fs[d].c = fs[p].c)
         /\ (fs0[p].t \in DirTypes => fs[d].t \in DirTypes)

\* C2 (non-destructive decline): when copy_file has asked and the answer,
\* trimmed, is neither "y" nor "Y", the call returns Ok at once and the file
\* system, the destination included, is as it was.
C2_DeclineKeepsDestination ==
  [][(Running("file", "decide") /\ Trim(Top.answer) \notin {<<"y">>, <<"Y">>})
       => (fs' = fs /\ stack' = Pop /\ pc' = "call" /\ ~failed')]_vars

C2_Witness ==
  /\ Succeeded
  /\ declined
  /\ ~IsDir(fs0, args.source)
  /\ fs0[args.destination].t = "file"
  /\ fs0[args.destination] # fs0[args.source]
  /\ fs[args.destination] = fs0[args.destination]

\* C3 (overwrite on confirm): when copy_file has asked about an existing
\* destination file, the answer is y and the copy succeeds, the destination
\* holds exactly the bytes the source had.
C3_OverwriteOnConfirm ==
  [][(/\ Running("file", "copy")
      /\ args.interactive
      /\ Confirms(Top.answer)
      /\ Exists(fs, Top.dst)
      /\ pc' = "call")
       => fs'[Top.dst] = File(fs[Top.src].c)]_vars

\* C4 (rejection without mutation): when the source does not exist, or is a
\* directory and -r is absent, the file system never changes and the process
\* ends with status 1.
C4_RejectionWithoutMutation ==
  (~Exists(fs0, args.source) \/ (IsDir(fs0, args.source) /\ ~args.recursive))
    => /\ fs = fs0
       /\ pc \in {"main", "exit"}
       /\ (pc = "exit" => status = 1 /\ msg # "none")

C4_Witness ==
  /\ pc = "exit"
  /\ msg = "Source is a directory"
  /\ fs0[args.destination].t = "none"
  /\ Children(fs0, args.source) # {}

\* C5 (abort on first failure, no rollback): once a directory creation, a
\* listing or a file copy has failed, no step changes the file system any
\* more, so what was copied stays, and the process ends with a non-zero status.
C5_AbortOnFirstFailure ==
  [][failed => (fs' = fs /\ failed' /\ (pc' = "exit" => status' # 0))]_vars

C5_Witness ==
  /\ pc = "exit"
  /\ failed
  /\ status = 1
  /\ DirCopy
  /\ \E p \in SrcTree0 :
       LET d == args.destination \o Rel(args.source, p)
       IN /\ Len(d) <= PathMax
          /\ fs0[p].t = "file" /\ fs0[d].t = "none" /\ fs[d] = fs0[p]
  /\ \E p \in SrcTree0 :
       LET d == args.destination \o Rel(args.source, p)
       IN Len(d) <= PathMax /\ fs[d].t = "none"

\* C6 (all-or-nothing file copy): the content copy of copy_file either
\* succeeds with the destination holding the bytes of the source, or fails
\* and leaves the destination as it was.
C6_AllOrNothing ==
  [][Running("file", "copy")
       => IF failed' THEN fs' = fs
          ELSE fs'[Top.dst].c = fs'[Top.src].c]_vars

\* C7 (inaccessible is not missing): "Source path does not exist" is never
\* reported for a source that is on the disk.
C7_InaccessibleIsNotMissing ==
  msg = "Source path does not exist" => fs0[args.source].t = "none"

\* C8 (additive copy): during and after a recursive copy, whatever was under
\* the destination at invocation at a relative path that is no entry of the
\* source tree is still there, unchanged.
C8_AdditiveCopy ==
  DirCopy =>
    \A p \in Paths :
      (/\ IsPrefix(args.destination, p)
       /\ p # args.destination
       /\ fs0[p].t # "none"
       /\ \A q \in SrcTree0 :
            Rel(args.source, q) # Rel(args.destination, p))
        => fs[p] = fs0[p]

DirNotice(i) == log[i].k = "Recursively copied directory"

\* C9 (post-order notices): in a verbose recursive copy a directory's notice
\* comes after every notice about anything in its subtree, no directory is
\* announced twice, and after success every directory of the source tree has
\* been announced.
C9_PostOrderNotices ==
  (DirCopy /\ args.verbose) =>
    /\ \A i, j \in 1..Len(log) :
         (DirNotice(i) /\ i # j /\ IsPrefix(log[i].src, log[j].src)) => j < i
    /\ Succeeded =>
         \A d \in SrcDirs0 :
           Cardinality({i \in 1..Len(log) : DirNotice(i) /\ log[i].src = d}) = 1

C9_Witness ==
  /\ Succeeded
  /\ DirCopy
  /\ args.verbose
  /\ \E i, j, k \in 1..Len(log) :
       /\ i < j /\ j < k
       /\ log[i].k = "Copied"
       /\ DirNotice(j) /\ log[j].src = Parent(log[i].src)
       /\ DirNotice(k) /\ log[k].src = args.source
       /\ log[j].src # args.source

\* C10 (bounded recursion): copy_directory is never nested deeper than the
\* source tree at invocation is deep.
C10_BoundedRecursion ==
  DirCopy => Cardinality(DirFrames) <= SrcDepth0

====
